---- MODULE Spec2Model ----
(***************************************************************************)
(* A model of the MindMirror frontend core:                                *)
(*   - the HTTP gateway client     (frontend/lib/api.ts, ApiClient.fetch)  *)
(*   - the upload pipeline         (frontend/components/files/             *)
(*                                  FileUpload.tsx, stores/fileStore.ts)   *)
(*   - the streaming chat pipeline (ApiClient.streamMessage,               *)
(*                                  stores/chatStore.ts sendMessage and    *)
(*                                  its simulateSearchProgress)            *)
(*   - the thread operations       (stores/chatStore.ts setCurrentThread,  *)
(*                                  createThread, deleteThread)            *)
(*                                                                         *)
(* Strings that the code builds by concatenation are modelled as sequences *)
(* of tokens; String.includes(t) is membership of the token t.             *)
(***************************************************************************)
EXTENDS Integers, Sequences, FiniteSets, TLC

VARIABLES
    session,         \* Session Provider: the session getSession() returns
    gwCall,          \* the last gateway call: its inputs
    gwOut,           \* the last gateway call: event log and outcome
    batch,           \* per upload batch: the locals of handleFiles
    uploadProgress,  \* fileStore.uploadProgress (single slot)
    uploading,       \* fileStore.uploading
    fileError,       \* fileStore.error
    totalFiles,      \* fileStore.totalFiles
    fileLoading,     \* fileStore.loading
    remoteCount,     \* the remote service: number of files it has stored
    running,         \* the batch that holds the event loop (0: none)
    history,         \* per batch: the observable events, in order
    msgHeap,         \* the Message objects, by identity (index)
    threads,         \* chatStore.threads
    currentThread,   \* chatStore.currentThread
    processingStatus,\* chatStore.processingStatus
    searchProgress,  \* chatStore.searchProgress
    isStreaming,     \* chatStore.isStreaming
    chatError,       \* chatStore.error
    send,            \* the locals of the sendMessage call
    sent,            \* the remote service: the frames of the response body
    wire,            \* the part of the body the reader has not returned yet
    buffer,          \* streamMessage: the text kept between two reads
    loading,         \* chatStore.loading
    sim,             \* per sendMessage call: the locals of simulateSearchProgress
    pending,         \* the thread operations that wait for the remote service
    ghost            \* what an observer has seen: owners, appends, writes

gwVars == <<session, gwCall, gwOut>>
upVars == <<batch, uploadProgress, uploading, fileError, totalFiles,
            fileLoading, remoteCount, running, history>>
chVars == <<msgHeap, threads, currentThread, processingStatus, searchProgress,
            isStreaming, chatError, send, sent, wire, buffer, loading, sim,
            pending, ghost>>
vars == <<session, gwCall, gwOut, batch, uploadProgress, uploading,
          fileError, totalFiles, fileLoading, remoteCount, running, history,
          msgHeap, threads, currentThread, processingStatus, searchProgress,
          isStreaming, chatError, send, sent, wire, buffer, loading, sim,
          pending, ghost>>

(***************************************************************************)
(* Small helpers                                                           *)
(***************************************************************************)
None == ""

Includes(msg, t) == \E k \in 1..Len(msg) : msg[k] = t

Last(s) == s[Len(s)]

(***************************************************************************)
(* Session Provider (supabase.auth): an opaque source of sessions          *)
(***************************************************************************)
NoSession == [access_token |-> None, user_id |-> None, present |-> FALSE]

MkSession(tok, uid) == [access_token |-> tok, user_id |-> uid, present |-> TRUE]

Sessions ==
    { NoSession,
      MkSession("t1", "u1"),      \* a normal signed-in session
      MkSession("t1", None),      \* a session without user id
      MkSession(None, "u1") }     \* a session without access token

\* supabase.auth.refreshSession(): { data: { session }, error }
RefreshOutcomes ==
    { [error |-> TRUE,  session |-> NoSession],
      [error |-> FALSE, session |-> NoSession],
      [error |-> FALSE, session |-> MkSession("t2", "u1")] }

(***************************************************************************)
(* Responses of the remote service                                         *)
(***************************************************************************)
NetErr == 0    \* the transport failed: fetch() itself rejects

Statuses == {200, 401, 500}

StatusStr(s) == CASE s = 200 -> "200" [] s = 401 -> "401"
                  [] s = 500 -> "500" [] OTHER -> "0"

DetailTexts == {"timeout", "Failed to upload", "quota exceeded"}

\* json: the body parses as JSON; detail / message: the fields of an error
\* payload; payload: what response.json() yields to the caller on success
MkResp(st, js, d, m, p) ==
    [status |-> st, json |-> js, detail |-> d, message |-> m, payload |-> p]

NetFailure == MkResp(NetErr, FALSE, None, None, None)

ErrorResponses(sts) ==
    { MkResp(st, FALSE, None, None, None) : st \in sts } \cup
    { MkResp(st, TRUE, d, None, None) : st \in sts, d \in DetailTexts } \cup
    { MkResp(st, TRUE, None, m, None) : st \in sts, m \in {None, "server message"} }

OkResponses(payloads) ==
    { MkResp(200, TRUE, None, None, p) : p \in payloads } \cup
    { MkResp(200, FALSE, None, None, None) }

ResponseOk(r) == r.status >= 200 /\ r.status <= 299

(***************************************************************************)
(* ApiClient.fetch                                                         *)
(***************************************************************************)
\* !session?.access_token
HasAccessTokenNullOnly(s) == s.present

HasAccessToken(s) == s.present /\ s.access_token # None

\* errorData.detail || errorData.message || `HTTP error! status: ...`, with
\* the upload prefix; the catch branch when the body is not JSON
ErrorMessage(endpoint, r) ==
    IF r.json
    THEN LET m == IF r.detail # None THEN <<r.detail>>
                  ELSE IF r.message # None THEN <<r.message>>
                  ELSE <<"HTTP error! status: ", StatusStr(r.status)>>
         IN  IF endpoint = "/files/upload"
             THEN <<"File upload failed: ">> \o m ELSE m
    ELSE <<"Request failed with status: ", StatusStr(r.status)>>

\* response.status === 401
ShouldRefreshAnyError(r) == ~ResponseOk(r)

ShouldRefresh(r) == r.status = 401

\* if (refreshError) throw ...
RefreshFailedNever(rf) == FALSE

RefreshFailed(rf) == rf.error

\* if (newSession) { ... retry ... }
ShouldRetryRequest(rf) == rf.session.present

ReqEvent(tok, r) == [ev |-> "request", token |-> tok, status |-> r.status]

RefreshEvent(rf) ==
    [ev |-> "refresh", token |-> rf.session.access_token, status |-> 0]

Thrown(msg) == [kind |-> "error", message |-> msg, response |-> NetFailure, via |-> 0]

Returned(r, n) == [kind |-> "response", message |-> <<>>, response |-> r, via |-> n]

\* What the retried request leads to: its response when ok, else the error
\* message of the FIRST response
RetryOutcome(r1, r2, msg) ==
    IF r2.status = NetErr THEN Thrown(<<"Failed to fetch">>)
    ELSE IF ~ResponseOk(r2) THEN Thrown(msg)
    ELSE Returned(r2, 2)

\* The whole call, as a function of what the collaborators answer:
\* s the session getSession() returns, r1 the first response, rf the outcome
\* of refreshSession(), r2 the response to the retried request
ApiFetch(endpoint, s, r1, rf, r2) ==
    IF ~HasAccessToken(s)
    THEN [log |-> <<>>, result |-> Thrown(<<"No active session">>)]
    ELSE LET e1 == <<ReqEvent(s.access_token, r1)>> IN
         IF r1.status = NetErr
         THEN [log |-> e1, result |-> Thrown(<<"Failed to fetch">>)]
         ELSE IF ResponseOk(r1)
         THEN [log |-> e1, result |-> Returned(r1, 1)]
         ELSE LET msg == ErrorMessage(endpoint, r1) IN
              IF ShouldRefresh(r1)
              THEN LET e2 == e1 \o <<RefreshEvent(rf)>> IN
                   IF RefreshFailed(rf)
                   THEN [log |-> e2,
                         result |-> Thrown(<<"Session expired. Please log in again.">>)]
                   ELSE IF ShouldRetryRequest(rf)
                   THEN [log |-> e2 \o <<ReqEvent(rf.session.access_token, r2)>>,
                         result |-> RetryOutcome(r1, r2, msg)]
                   ELSE [log |-> e2, result |-> Thrown(msg)]
              ELSE [log |-> e1, result |-> Thrown(msg)]

\* supabase keeps the refreshed session: what getSession() returns afterwards
SessionAfter(s, out) ==
    IF \E k \in 1..Len(out.log) :
          out.log[k].ev = "refresh" /\ out.log[k].token # None
    THEN MkSession("t2", s.user_id)
    ELSE s

(***************************************************************************)
(* ApiClient.streamMessage, up to the opening of the response body         *)
(***************************************************************************)
\* !session?.user?.id
HasUserId(s) == s.present /\ s.user_id # None

StreamOpen(s, r1, rf, r2) ==
    IF ~HasUserId(s)
    THEN [log |-> <<>>, result |-> Thrown(<<"No active session">>)]
    ELSE ApiFetch("/chat/message", s, r1, rf, r2)

(***************************************************************************)
(* Gateway specification: single gateway calls against every answer the    *)
(* collaborators can give                                                  *)
(***************************************************************************)
Endpoints == {"/files/upload", "/chat/threads", "/files/count"}

GatewayResponses ==
    {NetFailure} \cup OkResponses({"payload"}) \cup ErrorResponses({401, 500})

NoCall == [op |-> "none", endpoint |-> None, session |-> NoSession,
           r1 |-> NetFailure, rf |-> CHOOSE rf \in RefreshOutcomes : rf.error,
           r2 |-> NetFailure]

NoOut == [log |-> <<>>, result |-> Returned(NetFailure, 0)]

GwIdle ==
    /\ gwCall = NoCall
    /\ gwOut = NoOut

\* auth.login / auth.logout, or a session losing its token or user
SessionChange ==
    /\ gwCall.op = "none"
    /\ \E s \in Sessions : s # session /\ session' = s
    /\ UNCHANGED <<gwCall, gwOut>>
    /\ UNCHANGED <<upVars, chVars>>

CallFetch ==
    \E ep \in Endpoints, r1 \in GatewayResponses, rf \in RefreshOutcomes,
       r2 \in GatewayResponses :
        LET out == ApiFetch(ep, session, r1, rf, r2) IN
        /\ gwCall.op = "none"
        /\ gwCall' = [op |-> "fetch", endpoint |-> ep, session |-> session,
                      r1 |-> r1, rf |-> rf, r2 |-> r2]
        /\ gwOut' = out
        /\ session' = SessionAfter(session, out)
        /\ UNCHANGED <<upVars, chVars>>

CallStreamMessage ==
    \E r1 \in GatewayResponses, rf \in RefreshOutcomes, r2 \in GatewayResponses :
        LET out == StreamOpen(session, r1, rf, r2) IN
        /\ gwCall.op = "none"
        /\ gwCall' = [op |-> "streamMessage", endpoint |-> "/chat/message",
                      session |-> session, r1 |-> r1, rf |-> rf, r2 |-> r2]
        /\ gwOut' = out
        /\ session' = SessionAfter(session, out)
        /\ UNCHANGED <<upVars, chVars>>

\* the caller has taken the outcome of the call
CallReturns ==
    /\ gwCall.op # "none"
    /\ gwCall' = NoCall
    /\ gwOut' = NoOut
    /\ UNCHANGED session
    /\ UNCHANGED <<upVars, chVars>>

(***************************************************************************)
(* Files and the answers of POST /files/upload                             *)
(***************************************************************************)
MaxFiles == 3          \* longest batch explored

Batches == {1, 2}      \* handleFiles invocations that may be in flight

MiB == 1024 * 1024

\* A file: its name split at '.', and its size in bytes
MkFile(nm, sz) == [name |-> nm, size |-> sz]

FileKinds ==
    { MkFile(<<"notes", "TXT">>, 10 * MiB),     \* at the limit, upper case
      MkFile(<<"empty", "md">>, 0),             \* an empty file
      MkFile(<<"big", "pdf">>, 10 * MiB + 1),   \* one byte too large
      MkFile(<<"tool", "exe">>, 1024),          \* unsupported extension
      MkFile(<<"txt">>, 1024) }                 \* a name without any '.'

\* String.prototype.toLowerCase on the tokens used in names
ToLowerCase(t) == CASE t = "TXT" -> "txt" [] OTHER -> t

\* FileUploadResult by payload id
UploadResult(p) ==
    CASE p = "ok"      -> [status |-> "success", embedding_status |-> "completed"]
      [] p = "dup"     -> [status |-> "skipped", embedding_status |-> "skipped_duplicate"]
      [] p = "noidx"   -> [status |-> "success", embedding_status |-> "error_decode"]
      [] p = "pending" -> [status |-> "success", embedding_status |-> "pending"]
      [] OTHER         -> [status |-> "error",   embedding_status |-> "error"]

DefaultRefresh == CHOOSE rf \in RefreshOutcomes : rf.error

MkAnswer(r1, rf, r2) == [r1 |-> r1, rf |-> rf, r2 |-> r2]

\* What the collaborators may answer to one upload of one file
UploadAnswers ==
    { MkAnswer(MkResp(200, TRUE, None, None, p), DefaultRefresh, NetFailure) :
          p \in {"ok", "dup", "pending"} } \cup
    { MkAnswer(MkResp(500, TRUE, "timeout", None, None), DefaultRefresh, NetFailure) }

\* What they may answer to GET /files/count
CountAnswers ==
    { MkAnswer(MkResp(200, TRUE, None, None, "count"), DefaultRefresh, NetFailure) }

(***************************************************************************)
(* fileStore.uploadFile: validation                                        *)
(***************************************************************************)
maxSize == 10 * MiB

allowedTypes == {"txt", "pdf", "md", "doc", "docx"}

\* '.' + file.name.split('.').pop()?.toLowerCase()
fileExt(file) == ToLowerCase(Last(file.name))

SizeError(file) == <<"File size exceeds 10MB limit. Current size: ", "size", "MB">>

TypeError(file) == <<"File type ", ".", fileExt(file), " is not supported. Allowed types: ">>

\* <<>> when the file passes, else the message of the Error thrown
ValidationError(file) ==
    IF file.size > maxSize THEN SizeError(file)
    ELSE IF fileExt(file) \notin allowedTypes THEN TypeError(file)
    ELSE <<>>

(***************************************************************************)
(* FileUpload.attemptUpload: the retry predicate (handleFiles calls        *)
(* uploadFile directly, not attemptUpload)                                 *)
(***************************************************************************)
MAX_RETRIES == 3

TransientSignal(msg) == Includes(msg, "timeout") \/ Includes(msg, "Failed to upload")

attemptUploadRetries(retryCount, msg) ==
    retryCount < MAX_RETRIES /\ TransientSignal(msg)

(***************************************************************************)
(* FileUpload.handleFiles: classification of a response                    *)
(***************************************************************************)
ClassifyDropsUnknown(file, res) ==
    IF res.status = "skipped" /\ res.embedding_status = "skipped_duplicate"
    THEN "skipped"
    ELSE IF file.size = 0 THEN "uploaded"
    ELSE IF res.status = "success"
              /\ res.embedding_status \in {"error", "error_date_format",
                     "error_decode", "skipped_empty", "completed"}
    THEN "uploaded"
    ELSE "none"

Classify(file, res) ==
    IF res.status = "skipped" /\ res.embedding_status = "skipped_duplicate"
    THEN "skipped"
    ELSE IF file.size = 0 THEN "uploaded"
    ELSE IF res.status = "success"
    THEN IF res.embedding_status \in {"error", "error_date_format", "error_decode"}
         THEN "uploaded"
         ELSE IF res.embedding_status = "skipped_empty" THEN "uploaded"
         ELSE IF res.embedding_status = "completed" THEN "uploaded"
         ELSE "failed"
    ELSE "failed"

(***************************************************************************)
(* The upload pipeline: handleDrop / handleChange, handleFiles, uploadFile *)
(* and fetchTotalFiles.  A step runs from one suspension point (await of   *)
(* the network or of a timer) to the next; running = b while batch b still *)
(* holds the event loop between two steps.                                 *)
(***************************************************************************)
Progress(cf, idx, tot, st) ==
    [currentFile |-> cf, currentFileIndex |-> idx, totalFiles |-> tot, status |-> st]

InitialProgress == Progress(<<>>, 0, 0, "idle")

\* the last setUploadProgress of handleFiles
ResetProgressKeepsStatus == [uploadProgress EXCEPT !.currentFileIndex = 0]

ResetProgress == Progress(<<>>, 0, 0, "idle")

IdleBatch ==
    [pc |-> "idle", files |-> <<>>, i |-> 0, successCount |-> 0,
     skipCount |-> 0, errorCount |-> 0, summary |-> <<>>]

Event(e, k, res, bucket, nreq, msg) ==
    [ev |-> e, i |-> k, res |-> res, bucket |-> bucket, requests |-> nreq,
     msg |-> msg]

BatchesOf(n) == IF n = 0 THEN {<<>>} ELSE [1..n -> FileKinds]

FileBatches == UNION { BatchesOf(n) : n \in 0..MaxFiles }

\* the file of the current iteration (files[i], 0-based in the code)
CurrentFile(b) == batch[b].files[batch[b].i + 1]

\* the for loop goes on with i + 1 after the catch block
AfterCatchAbort(i, n) == n

AfterCatch(i, n) == i + 1

CountUp(rec, bucket) ==
    CASE bucket = "uploaded" -> [rec EXCEPT !.successCount = @ + 1]
      [] bucket = "skipped"  -> [rec EXCEPT !.skipCount = @ + 1]
      [] bucket = "failed"   -> [rec EXCEPT !.errorCount = @ + 1]
      [] OTHER               -> rec

Requests(log) == Cardinality({ k \in 1..Len(log) : log[k].ev = "request" })

UpIdle ==
    /\ batch = [b \in Batches |-> IdleBatch]
    /\ uploadProgress = InitialProgress
    /\ uploading = FALSE
    /\ fileError = <<>>
    /\ totalFiles = [known |-> FALSE, count |-> 0]
    /\ fileLoading = FALSE
    /\ remoteCount = 0
    /\ running = 0
    /\ history = [b \in Batches |-> <<>>]

\* handleDrop / handleChange up to the for loop of handleFiles, for the
\* files fs dropped or chosen
StartBatchWith(b, fs, via) ==
    /\ batch[b].pc = "idle"
    /\ running = 0
    /\ via = "drop" => Len(fs) >= 1
    /\ via = "change" => ~uploading
    /\ fileError' = <<>>
    /\ uploadProgress' = Progress(uploadProgress.currentFile, 0, Len(fs), "uploading")
    /\ batch' = [batch EXCEPT ![b] = [IdleBatch EXCEPT !.pc = "loop", !.files = fs]]
    /\ running' = b
    /\ UNCHANGED <<session, gwCall, gwOut, uploading, totalFiles, fileLoading,
                   remoteCount, history>>
    /\ UNCHANGED chVars

StartBatch(b) ==
    \E fs \in FileBatches, via \in {"drop", "change"} : StartBatchWith(b, fs, via)

\* one iteration of the for loop up to `await api.uploadFile(file)`, or, for
\* a file that fails validation, through both catch blocks
Iterate(b) ==
    /\ batch[b].pc = "loop"
    /\ running = b
    /\ batch[b].i < Len(batch[b].files)
    /\ LET file == CurrentFile(b)
           i    == batch[b].i
           n    == Len(batch[b].files)
           err  == ValidationError(file)
       IN  IF err # <<>>
           THEN /\ fileError' = err
                /\ uploading' = FALSE
                /\ uploadProgress' = Progress(file.name, i, n, "error")
                /\ batch' = [batch EXCEPT ![b] =
                       [CountUp(batch[b], "failed") EXCEPT !.i = AfterCatch(i, n)]]
                /\ history' = [history EXCEPT ![b] = @ \o
                       <<Event("begin", i, None, None, 0, <<>>),
                         Event("end", i, "invalid", "failed", 0, err)>>]
                /\ running' = b
           ELSE /\ fileError' = <<>>
                /\ uploading' = TRUE
                /\ uploadProgress' = Progress(file.name, i, n, "processing")
                /\ batch' = [batch EXCEPT ![b].pc = "awaitUpload"]
                /\ history' = [history EXCEPT ![b] = @ \o
                       <<Event("begin", i, None, None, 0, <<>>)>>]
                /\ running' = 0
    /\ UNCHANGED <<session, gwCall, gwOut, totalFiles, fileLoading, remoteCount>>
    /\ UNCHANGED chVars

\* the step after the result is classified and the progress set to
\* complete: `await fetchTotalFiles()`
AfterCompleteSkipsCount(rec) ==
    IF rec.i < Len(rec.files) - 1
    THEN [rec EXCEPT !.pc = "pacing"]
    ELSE [rec EXCEPT !.i = @ + 1, !.pc = "loop"]

AfterComplete(rec) == [rec EXCEPT !.pc = "awaitCount"]

\* api.uploadFile settles: the rest of uploadFile and of the iteration, up
\* to `await fetchTotalFiles()` or through both catch blocks
UploadSettles(b) ==
    \E a \in UploadAnswers :
        /\ batch[b].pc = "awaitUpload"
        /\ running = 0
        /\ LET file == CurrentFile(b)
               i    == batch[b].i
               n    == Len(batch[b].files)
               out  == ApiFetch("/files/upload", session, a.r1, a.rf, a.r2)
               nreq == Requests(out.log)
               thrown == out.result.kind = "error" \/ ~out.result.response.json
               msg  == IF out.result.kind = "error" THEN out.result.message
                       ELSE <<"Unexpected token">>
               res  == UploadResult(out.result.response.payload)
           IN  /\ session' = SessionAfter(session, out)
               /\ IF thrown
                  THEN /\ fileError' = msg
                       /\ uploading' = FALSE
                       /\ uploadProgress' = Progress(file.name, i, n, "error")
                       /\ batch' = [batch EXCEPT ![b] =
                              [CountUp(batch[b], "failed") EXCEPT
                                  !.i = AfterCatch(i, n), !.pc = "loop"]]
                       /\ history' = [history EXCEPT ![b] = @ \o
                              <<Event("api", i, None, None, nreq, <<>>),
                                Event("end", i, "thrown", "failed", 0, msg)>>]
                       /\ running' = b
                       /\ UNCHANGED <<fileLoading, remoteCount>>
                  ELSE /\ fileError' = <<>>
                       /\ uploading' = FALSE
                       /\ uploadProgress' = Progress(file.name, i, n, "complete")
                       /\ batch' = [batch EXCEPT ![b] =
                              AfterComplete(CountUp(batch[b], Classify(file, res)))]
                       /\ history' = [history EXCEPT ![b] = @ \o
                              <<Event("api", i, None, None, nreq, <<>>),
                                Event("end", i, out.result.response.payload,
                                      Classify(file, res), 0, <<>>)>>]
                       /\ fileLoading' = TRUE
                       /\ remoteCount' = IF res.status = "success"
                                         THEN remoteCount + 1 ELSE remoteCount
                       /\ running' = IF batch'[b].pc = "loop" THEN b ELSE 0
        /\ UNCHANGED <<gwCall, gwOut, totalFiles>>
        /\ UNCHANGED chVars

\* the step after the file counter is refreshed: the pacing delay unless
\* this was the last file
NextAfterCount(rec) ==
    IF rec.i < Len(rec.files) - 1
    THEN [rec EXCEPT !.pc = "pacing"]
    ELSE [rec EXCEPT !.i = @ + 1, !.pc = "loop"]

\* api.getFileCount settles: the rest of fetchTotalFiles
CountSettles(b) ==
    \E a \in CountAnswers :
        /\ batch[b].pc = "awaitCount"
        /\ running = 0
        /\ LET out == ApiFetch("/files/count", session, a.r1, a.rf, a.r2)
               thrown == out.result.kind = "error" \/ ~out.result.response.json
               msg  == IF out.result.kind = "error" THEN out.result.message
                       ELSE <<"Unexpected token">>
           IN  /\ session' = SessionAfter(session, out)
               /\ IF thrown
                  THEN fileError' = msg /\ UNCHANGED totalFiles
                  ELSE totalFiles' = [known |-> TRUE, count |-> remoteCount]
                       /\ UNCHANGED fileError
               /\ fileLoading' = FALSE
               /\ batch' = [batch EXCEPT ![b] = NextAfterCount(batch[b])]
               /\ running' = IF batch'[b].pc = "loop" THEN b ELSE 0
               /\ history' = [history EXCEPT ![b] = @ \o
                      <<Event("count", batch[b].i, None, None, Requests(out.log),
                              <<>>)>>]
        /\ UNCHANGED <<gwCall, gwOut, uploadProgress, uploading, remoteCount>>
        /\ UNCHANGED chVars

\* the 300 ms timer between two files fires
PacingDone(b) ==
    /\ batch[b].pc = "pacing"
    /\ running = 0
    /\ batch' = [batch EXCEPT ![b].i = @ + 1, ![b].pc = "loop"]
    /\ running' = b
    /\ UNCHANGED <<session, gwCall, gwOut, uploadProgress, uploading, fileError,
                   totalFiles, fileLoading, remoteCount, history>>
    /\ UNCHANGED chVars

\* after the loop: the batch summary and the reset of the progress slot
Finish(b) ==
    /\ batch[b].pc = "loop"
    /\ running = b
    /\ batch[b].i >= Len(batch[b].files)
    /\ batch' = [batch EXCEPT ![b].pc = "done",
                   ![b].summary = IF Len(batch[b].files) > 1
                                  THEN <<batch[b].successCount, batch[b].skipCount,
                                         batch[b].errorCount>>
                                  ELSE <<>>]
    /\ uploadProgress' = ResetProgress
    /\ running' = 0
    /\ UNCHANGED <<session, gwCall, gwOut, uploading, fileError, totalFiles,
                   fileLoading, remoteCount, history>>
    /\ UNCHANGED chVars

(***************************************************************************)
(* The Thread/Message store (chatStore).  Message objects are mutated in   *)
(* place by the streaming loop, so they live in a heap and the message     *)
(* arrays hold their indices; arrays and threads are always copied.        *)
(***************************************************************************)
NoThread == [id |-> None, messages |-> <<>>, present |-> FALSE]

MkThread(id, ms) == [id |-> id, messages |-> ms, present |-> TRUE]

MkMessage(role, content, sources) ==
    [role |-> role, content |-> content, sources |-> sources]

\* threads.map(t => t.id === updatedThread.id ? updatedThread : t)
ReplaceThread(ts, updated) ==
    [k \in 1..Len(ts) |-> IF ts[k].id = updated.id THEN updated ELSE ts[k]]

Front(q) == SubSeq(q, 1, Len(q) - 1)

(***************************************************************************)
(* The response body of POST /chat/message: frames "data: <json>\n\n"      *)
(***************************************************************************)
MaxFrames == 3         \* most frames in one response body

NL == "\n"

DataPrefix == "data: "

DoneMark == "[DONE]"

\* payloads that parse as JSON, by id
JsonPayloads == {"A", "B", "S"}

\* what a frame may carry: three JSON payloads, a malformed one, [DONE]
Payloads == JsonPayloads \cup {"bad", DoneMark}

\* JSON.parse of a payload: ChatResponse { content?, sources? }
FrameOf(p) ==
    CASE p = "A" -> [content |-> "A", sources |-> None]
      [] p = "B" -> [content |-> "B", sources |-> "s2"]
      [] OTHER   -> [content |-> None, sources |-> "s1"]

FrameSeqs == UNION { IF n = 0 THEN {<<>>} ELSE [1..n -> Payloads] : n \in 0..MaxFrames }

RECURSIVE BodyOf(_)
BodyOf(frames) ==
    IF frames = <<>> THEN <<>>
    ELSE <<DataPrefix, Head(frames), NL, NL>> \o BodyOf(Tail(frames))

\* the body as the transport delivers it: whole, or closed before the
\* newlines that end the last frame
CutBody(frames, cut) == SubSeq(BodyOf(frames), 1, Len(BodyOf(frames)) - cut)

Cuts(frames) == IF frames = <<>> THEN {0} ELSE {0, 2}

(***************************************************************************)
(* ApiClient.streamMessage: the decoder                                    *)
(***************************************************************************)
RECURSIVE SplitAcc(_, _, _)
SplitAcc(text, cur, acc) ==
    IF text = <<>> THEN acc \o <<cur>>
    ELSE IF Head(text) = NL
    THEN SplitAcc(Tail(text), <<>>, acc \o <<cur>>)
    ELSE SplitAcc(Tail(text), cur \o <<Head(text)>>, acc)

\* buffer.split('\n')
split(text) == SplitAcc(text, <<>>, <<>>)

\* line.startsWith('data: ')
StartsWithData(line) == Len(line) >= 1 /\ line[1] = DataPrefix

\* data === '[DONE]'
IsDoneNever(data) == FALSE

IsDone(data) == data = <<DoneMark>>

\* JSON.parse(data) does not throw
JsonParses(data) == Len(data) = 1 /\ data[1] \in JsonPayloads

\* the catch block around JSON.parse: the error is logged and the loop
\* goes on with the lines that follow (rest: what they decode to)
OnParseErrorReturn(rest) == [frames |-> <<>>, done |-> TRUE]

OnParseError(rest) == rest

\* the for loop over the lines of one read: the frames it yields, and
\* whether it returned on [DONE]
RECURSIVE DecodeLines(_)
DecodeLines(lines) ==
    IF lines = <<>> THEN [frames |-> <<>>, done |-> FALSE]
    ELSE LET line == Head(lines)
             data == Tail(line)
             rest == DecodeLines(Tail(lines))
         IN  IF ~StartsWithData(line) THEN rest
             ELSE IF IsDone(data) THEN [frames |-> <<>>, done |-> TRUE]
             ELSE IF JsonParses(data)
             THEN [frames |-> <<FrameOf(data[1])>> \o rest.frames, done |-> rest.done]
             ELSE OnParseError(rest)

\* buffer = lines.pop() || '': the last, possibly incomplete, line is kept
\* for the next read
RetainNothing(pieces) == <<>>

Retain(pieces) == Last(pieces)

(***************************************************************************)
(* chatStore.sendMessage                                                   *)
(***************************************************************************)
Searching == "Searching documents..."

Analyzing == "Analyzing context..."

Generating == "Generating response..."

\* the calls of sendMessage, in the order they are made
SendNos == {1, 2}

\* no: the ordinal of the call; thrown: the message of the error it caught
IdleSend ==
    [pc |-> "idle", threadId |-> None, placeholder |-> 0, isSearching |-> FALSE,
     failed |-> FALSE, no |-> 0, thrown |-> <<>>]

\* simulateSearchProgress: pc is off (not started), waiting (a timer is
\* pending) or stopped (returned); tier is the loop the timer was set in;
\* isSearching is the flag of the enclosing call
IdleSim == [pc |-> "off", tier |-> 1, progress |-> 0, isSearching |-> FALSE]

\* owner: per Message object, the call that appended it as its placeholder
\* (0: none); appends: the content appends made, [msg, by]; labels: the
\* values written to processingStatus by the current call; yielded: the
\* frames the generator yielded to the current call; lateTick: a simulator
\* wrote searchProgress after its flag was cleared; staleTick: a simulator
\* wrote searchProgress after its call had completed; ops: the number of
\* thread operations started; settled: the thread operation that settled
\* last and whether the remote service had accepted it
IdleGhost ==
    [owner |-> <<0, 0>>, appends |-> {}, labels |-> <<>>, yielded |-> <<>>,
     lateTick |-> FALSE, staleTick |-> FALSE, ops |-> 0,
     settled |-> [kind |-> "none", id |-> None, ok |-> FALSE, seq |-> 0]]

\* the finally block as the observer sees it: the label goes back to ''
Ended(g) == [g EXCEPT !.labels = @ \o <<None>>]

\* the message the set() of the loop body mutates: the last message of the
\* current thread when it is an assistant message, else none (0)
LastAssistantAnyRole(heap, cur) ==
    IF ~cur.present \/ cur.messages = <<>> THEN 0 ELSE Last(cur.messages)

LastAssistant(heap, cur) ==
    IF ~cur.present \/ cur.messages = <<>> THEN 0
    ELSE IF heap[Last(cur.messages)].role = "assistant"
    THEN Last(cur.messages) ELSE 0

\* lastMessage.sources = chunk.sources, under if (chunk.sources)
NewSources(old, frame) == IF frame.sources # None THEN frame.sources ELSE old

\* get().processingStatus === 'Searching documents...'
StillSearchingLabelAny(status) == TRUE

StillSearchingLabel(status) == status = Searching

\* the body of the for-await loop for one chunk; st holds the store fields
\* and the locals it touches
ApplyFrame(st, frame, cur) ==
    IF frame.content = None THEN st
    ELSE LET s1 == IF StillSearchingLabel(st.status) THEN Analyzing ELSE st.status
             s2 == IF s1 = Analyzing THEN Generating ELSE s1
             l1 == IF StillSearchingLabel(st.status) THEN st.labels \o <<Analyzing>>
                   ELSE st.labels
             l2 == IF s1 = Analyzing THEN l1 \o <<Generating>> ELSE l1
             m  == LastAssistant(st.heap, cur)
         IN  [heap |-> IF m = 0 THEN st.heap
                       ELSE [st.heap EXCEPT
                               ![m].content = @ \o <<frame.content>>,
                               ![m].sources = NewSources(@, frame)],
              status |-> s2,
              labels |-> l2,
              progress |-> IF StillSearchingLabel(st.status) THEN 0 ELSE st.progress,
              isSearching |-> FALSE]

RECURSIVE ApplyFrames(_, _, _)
ApplyFrames(st, frames, cur) ==
    IF frames = <<>> THEN st
    ELSE ApplyFrames(ApplyFrame(st, Head(frames), cur), Tail(frames), cur)

\* appendMessage(message), the message object being heap[m]
AppendedThread(cur, m) == [cur EXCEPT !.messages = @ \o <<m>>]

ChIdle ==
    /\ msgHeap = << MkMessage("user", <<"earlier question">>, None),
                    MkMessage("assistant", <<"earlier answer">>, "s0") >>
    /\ threads = << MkThread("th1", <<1, 2>>), MkThread("th2", <<>>) >>
    /\ currentThread = NoThread
    /\ processingStatus = None
    /\ searchProgress = 0
    /\ isStreaming = FALSE
    /\ chatError = <<>>
    /\ send = IdleSend
    /\ sent = [frames |-> <<>>, cut |-> 0]
    /\ wire = <<>>
    /\ buffer = <<>>
    /\ loading = FALSE
    /\ sim = [n \in SendNos |-> IdleSim]
    /\ pending = {}
    /\ ghost = IdleGhost

\* sendMessage (call number n) up to the first await of streamMessage: both
\* appendMessage calls, the flags, the phase label, and simulateSearchProgress
\* up to its first timer
SendMessage(n) ==
    /\ send.pc \in {"idle", "done"}
    /\ send.no = n - 1
    /\ LET u == Len(msgHeap) + 1
           a == Len(msgHeap) + 2
       IN  IF currentThread.present
           THEN LET updated == AppendedThread(AppendedThread(currentThread, u), a) IN
                /\ msgHeap' = msgHeap \o << MkMessage("user", <<"question">>, None),
                                           MkMessage("assistant", <<>>, None) >>
                /\ currentThread' = updated
                /\ threads' = ReplaceThread(threads, updated)
                /\ send' = [IdleSend EXCEPT !.pc = "opening",
                              !.threadId = currentThread.id,
                              !.placeholder = a, !.isSearching = TRUE, !.no = n]
                /\ ghost' = [ghost EXCEPT !.owner = @ \o <<0, n>>,
                               !.labels = <<Searching>>, !.yielded = <<>>]
           ELSE /\ UNCHANGED <<msgHeap, currentThread, threads>>
                /\ send' = [IdleSend EXCEPT !.pc = "opening", !.isSearching = TRUE,
                              !.no = n]
                /\ ghost' = [ghost EXCEPT !.labels = <<Searching>>, !.yielded = <<>>]
    /\ sim' = [sim EXCEPT ![n] = [IdleSim EXCEPT !.pc = "waiting",
                                               !.isSearching = TRUE]]
    /\ isStreaming' = TRUE
    /\ searchProgress' = 0
    /\ processingStatus' = Searching
    /\ UNCHANGED <<chatError, sent, wire, buffer, loading, pending,
                   session, gwCall, gwOut>>
    /\ UNCHANGED upVars

\* the first call of sendMessage
SendStart == SendMessage(1)

\* state.currentThread.messages.slice(0, -1)
DropLastKeepsAll(messages) == messages

DropLast(messages) == Front(messages)

\* the catch block of sendMessage followed by its finally block
ErrorPath(msg) ==
    /\ IF currentThread.present
       THEN LET updated == [currentThread EXCEPT !.messages = DropLast(@)] IN
            /\ currentThread' = updated
            /\ threads' = ReplaceThread(threads, updated)
            /\ chatError' = msg
       ELSE UNCHANGED <<currentThread, threads, chatError>>
    /\ isStreaming' = FALSE
    /\ searchProgress' = 0
    /\ processingStatus' = None
    /\ send' = [send EXCEPT !.pc = "done", !.failed = TRUE, !.thrown = msg]
    /\ ghost' = Ended(ghost)

\* the finally block of sendMessage after the loop ended normally
Completion(isSearching) ==
    /\ isStreaming' = FALSE
    /\ searchProgress' = 0
    /\ processingStatus' = None
    /\ send' = [send EXCEPT !.pc = "done", !.isSearching = isSearching]

StreamAnswers ==
    { MkAnswer(MkResp(200, TRUE, None, None, "body"), DefaultRefresh, NetFailure),
      MkAnswer(MkResp(200, TRUE, None, None, None), DefaultRefresh, NetFailure),
      MkAnswer(MkResp(500, TRUE, "quota exceeded", None, None), DefaultRefresh,
               NetFailure) }

\* streamMessage up to getReader(), the remote service sending the body
\* frames with its last cut bytes missing: the session check, the request
StreamOpensWith(a, frames, cut) ==
    /\ send.pc = "opening"
    /\ LET out == StreamOpen(session, a.r1, a.rf, a.r2) IN
       /\ session' = SessionAfter(session, out)
       /\ IF out.result.kind = "error"
          THEN ErrorPath(out.result.message)
               /\ UNCHANGED <<sent, wire, buffer>>
          ELSE IF out.result.response.payload = None
          THEN ErrorPath(<<"No response body">>)
               /\ UNCHANGED <<sent, wire, buffer>>
          ELSE /\ sent' = [frames |-> frames, cut |-> cut]
               /\ wire' = CutBody(frames, cut)
               /\ buffer' = <<>>
               /\ send' = [send EXCEPT !.pc = "reading"]
               /\ UNCHANGED <<currentThread, threads, chatError, isStreaming,
                              searchProgress, processingStatus, ghost>>
    /\ UNCHANGED <<msgHeap, loading, sim, pending, gwCall, gwOut>>
    /\ UNCHANGED upVars

StreamOpens ==
    \E a \in StreamAnswers, frames \in FrameSeqs :
      \E cut \in Cuts(frames) : StreamOpensWith(a, frames, cut)

\* some frame of the read carries content
HasContent(frames) == \E k \in 1..Len(frames) : frames[k].content # None

\* reader.read() returns a chunk: the lines it completes are decoded and
\* every frame yielded goes through the loop body; on [DONE] the generator
\* returns and sendMessage completes
ReadChunk ==
    \E k \in 1..Len(wire) :
        /\ send.pc = "reading"
        /\ LET pieces == split(buffer \o SubSeq(wire, 1, k))
               dec    == DecodeLines(Front(pieces))
               st0    == [heap |-> msgHeap, status |-> processingStatus,
                          labels |-> ghost.labels,
                          progress |-> searchProgress,
                          isSearching |-> send.isSearching]
               st     == ApplyFrames(st0, dec.frames, currentThread)
               m      == LastAssistant(msgHeap, currentThread)
               seen   == [ghost EXCEPT
                            !.labels = st.labels,
                            !.yielded = @ \o dec.frames,
                            !.appends = IF HasContent(dec.frames) /\ m # 0
                                        THEN @ \cup {[msg |-> m, by |-> send.no]}
                                        ELSE @]
           IN  /\ msgHeap' = st.heap
               /\ wire' = SubSeq(wire, k + 1, Len(wire))
               /\ buffer' = Retain(pieces)
               /\ sim' = [sim EXCEPT ![send.no].isSearching = st.isSearching]
               /\ IF dec.done
                  THEN Completion(st.isSearching) /\ ghost' = Ended(seen)
                  ELSE /\ processingStatus' = st.status
                       /\ searchProgress' = st.progress
                       /\ send' = [send EXCEPT !.isSearching = st.isSearching]
                       /\ ghost' = seen
                       /\ UNCHANGED isStreaming
        /\ UNCHANGED <<currentThread, threads, chatError, sent, loading, pending,
                       session, gwCall, gwOut>>
        /\ UNCHANGED upVars

\* reader.read() reports the end of the body: the loop breaks, whatever is
\* left in the buffer is dropped, and sendMessage completes
ReadEnd ==
    /\ send.pc = "reading"
    /\ wire = <<>>
    /\ Completion(send.isSearching)
    /\ ghost' = Ended(ghost)
    /\ UNCHANGED <<msgHeap, currentThread, threads, chatError, sent, wire, buffer,
                   loading, sim, pending, session, gwCall, gwOut>>
    /\ UNCHANGED upVars

\* reader.read() rejects: the transport failed while the body was read
ReadFails ==
    /\ send.pc = "reading"
    /\ ErrorPath(<<"network error">>)
    /\ UNCHANGED <<msgHeap, sent, wire, buffer, loading, sim, pending,
                   session, gwCall, gwOut>>
    /\ UNCHANGED upVars

(***************************************************************************)
(* chatStore.sendMessage: simulateSearchProgress                           *)
(***************************************************************************)
Max(x, y) == IF x >= y THEN x ELSE y

Min(x, y) == IF x <= y THEN x ELSE y

\* Math.max(1, Math.floor(10 / (progress / 10)))
SlowIncrement(progress) == Max(1, 100 \div progress)

\* what a timer of the given loop does to progress when it fires: += 5 in
\* the first loop, += 3 in the second, Math.min(90, progress + increment)
\* in the third
SimStepNoCap(tier, progress) ==
    CASE tier = 1 -> progress + 5
      [] tier = 2 -> progress + 3
      [] OTHER    -> progress + SlowIncrement(progress)

SimStepCapHundred(tier, progress) ==
    CASE tier = 1 -> progress + 5
      [] tier = 2 -> progress + 3
      [] OTHER    -> Min(100, progress + SlowIncrement(progress))

SimStep(tier, progress) ==
    CASE tier = 1 -> progress + 5
      [] tier = 2 -> progress + 3
      [] OTHER    -> Min(90, progress + SlowIncrement(progress))

\* the loop whose condition holds next: progress < 30, progress < 50, true
NextTier(tier, progress) ==
    IF tier = 1 /\ progress < 30 THEN 1
    ELSE IF tier <= 2 /\ progress < 50 THEN 2
    ELSE 3

\* call n of sendMessage has run its finally block
CallEnded(n) == send.no > n \/ (send.no = n /\ send.pc = "done")

\* a timer of the simulator of call n fires: progress is advanced and
\* written, then the loop conditions are tested with the flag as it is now
SimTick(n) ==
    /\ sim[n].pc = "waiting"
    /\ LET p == SimStep(sim[n].tier, sim[n].progress) IN
       /\ searchProgress' = p
       /\ sim' = [sim EXCEPT ![n] =
                    [sim[n] EXCEPT
                       !.progress = p,
                       !.tier = NextTier(sim[n].tier, p),
                       !.pc = IF sim[n].isSearching THEN "waiting" ELSE "stopped"]]
    /\ ghost' = [ghost EXCEPT !.lateTick = @ \/ ~sim[n].isSearching,
                              !.staleTick = @ \/ CallEnded(n)]
    /\ UNCHANGED <<msgHeap, threads, currentThread, processingStatus, isStreaming,
                   chatError, send, sent, wire, buffer, loading, pending,
                   session, gwCall, gwOut>>
    /\ UNCHANGED upVars

(***************************************************************************)
(* chatStore: the thread operations                                        *)
(***************************************************************************)
MaxOps == 2            \* most thread operations started in one run

\* the ids the remote service gives to new threads, in order
NewThreadIds == <<"th3", "th4", "th5", "th6">>

\* what the remote service answers to a thread request
ThreadAnswers ==
    { MkAnswer(MkResp(200, TRUE, None, None, "ok"), DefaultRefresh, NetFailure),
      MkAnswer(MkResp(500, TRUE, "quota exceeded", None, None), DefaultRefresh,
               NetFailure) }

\* the message lists the remote service may hold for a thread
RemoteMessageLists ==
    { <<>>,
      << MkMessage("user", <<"earlier question">>, None),
         MkMessage("assistant", <<"earlier answer">>, "s0") >> }

\* api.getThreadMessages(id): a gateway call that resolves to the messages
\* of the thread or throws what the gateway throws
GetThreadMessages(s, a, list) ==
    LET out == ApiFetch("/chat/threads/messages", s, a.r1, a.rf, a.r2) IN
    [out |-> out, ok |-> out.result.kind # "error", messages |-> list]

\* seq: the ordinal of the operation among those started
MkOp(kind, id, thread) ==
    [kind |-> kind, id |-> id, thread |-> thread, seq |-> ghost.ops + 1]

Settled(g, op, ok) ==
    [g EXCEPT !.settled = [kind |-> op.kind, id |-> op.id, ok |-> ok, seq |-> op.seq]]

\* ChatInterface renders a spinner while loading and an error page once an
\* error is set: the thread list and the input box are then not shown
UserCanAct == ~loading /\ chatError = <<>> /\ ghost.ops < MaxOps

\* ChatInput is disabled without a current thread and while a call runs
UserCanSend ==
    /\ ~loading /\ chatError = <<>>
    /\ currentThread.present /\ processingStatus = None

\* the parts of the state no thread operation touches
ThreadOpFrame ==
    /\ UNCHANGED <<processingStatus, searchProgress, isStreaming, send, sent,
                   wire, buffer, sim, gwCall, gwOut>>
    /\ UNCHANGED upVars

Started(kind, id, thread) ==
    /\ loading' = TRUE
    /\ chatError' = <<>>
    /\ pending' = pending \cup {MkOp(kind, id, thread)}
    /\ ghost' = [ghost EXCEPT !.ops = @ + 1]

\* setCurrentThread(thread) up to its await, thread being the k-th of the list
SelectThread(k) ==
    /\ k \in 1..Len(threads)
    /\ currentThread' = threads[k]
    /\ Started("select", threads[k].id, threads[k])
    /\ UNCHANGED <<msgHeap, threads, session>>
    /\ ThreadOpFrame

\* setCurrentThread after its await
SelectSettles ==
    \E op \in pending, a \in ThreadAnswers, list \in RemoteMessageLists :
        /\ op.kind = "select"
        /\ LET got == GetThreadMessages(session, a, list)
               idx == [k \in 1..Len(list) |-> Len(msgHeap) + k]
               updatedThread == [op.thread EXCEPT !.messages = idx]
           IN  /\ session' = SessionAfter(session, got.out)
               /\ IF got.ok
                  THEN /\ msgHeap' = msgHeap \o got.messages
                       /\ ghost' = [Settled(ghost, op, TRUE) EXCEPT
                                      !.owner = @ \o [k \in 1..Len(list) |-> 0]]
                       /\ currentThread' = updatedThread
                       /\ threads' = ReplaceThread(threads, updatedThread)
                       /\ UNCHANGED chatError
                  ELSE /\ chatError' = got.out.result.message
                       /\ currentThread' = [op.thread EXCEPT !.messages = <<>>]
                       /\ ghost' = Settled(ghost, op, FALSE)
                       /\ UNCHANGED <<msgHeap, threads>>
        /\ loading' = FALSE
        /\ pending' = pending \ {op}
        /\ ThreadOpFrame

\* createThread(title) up to its await
CreateThread ==
    /\ Started("create", None, NoThread)
    /\ UNCHANGED <<msgHeap, threads, currentThread, session>>
    /\ ThreadOpFrame

\* the thread the remote service creates
CreatedThread(op) == MkThread(NewThreadIds[op.seq], <<>>)

\* createThread after its await
CreateSettles ==
    \E op \in pending, a \in ThreadAnswers :
        /\ op.kind = "create"
        /\ LET out == ApiFetch("/chat/threads", session, a.r1, a.rf, a.r2) IN
           /\ session' = SessionAfter(session, out)
           /\ IF out.result.kind # "error"
              THEN /\ threads' = <<CreatedThread(op)>> \o threads
                   /\ currentThread' = CreatedThread(op)
                   /\ UNCHANGED chatError
              ELSE /\ chatError' = out.result.message
                   /\ UNCHANGED <<threads, currentThread>>
           /\ ghost' = Settled(ghost, op, out.result.kind # "error")
        /\ loading' = FALSE
        /\ pending' = pending \ {op}
        /\ UNCHANGED msgHeap
        /\ ThreadOpFrame

\* deleteThread(threadId) up to its await, for the k-th thread of the list
DeleteThread(k) ==
    /\ k \in 1..Len(threads)
    /\ Started("delete", threads[k].id, NoThread)
    /\ UNCHANGED <<msgHeap, threads, currentThread, session>>
    /\ ThreadOpFrame

\* state.threads.filter(t => t.id !== threadId)
RemoveThread(ts, id) == SelectSeq(ts, LAMBDA t : t.id # id)

\* state.currentThread?.id === threadId ? null : state.currentThread
ClearIfActiveAlways(cur, id) == NoThread

ClearIfActive(cur, id) == IF cur.present /\ cur.id = id THEN NoThread ELSE cur

\* deleteThread after its await
DeleteSettles ==
    \E op \in pending, a \in ThreadAnswers :
        /\ op.kind = "delete"
        /\ LET out == ApiFetch("/chat/threads/id", session, a.r1, a.rf, a.r2) IN
           /\ session' = SessionAfter(session, out)
           /\ IF out.result.kind # "error"
              THEN /\ threads' = RemoveThread(threads, op.id)
                   /\ currentThread' = ClearIfActive(currentThread, op.id)
                   /\ UNCHANGED chatError
              ELSE /\ chatError' = out.result.message
                   /\ UNCHANGED <<threads, currentThread>>
           /\ ghost' = Settled(ghost, op, out.result.kind # "error")
        /\ loading' = FALSE
        /\ pending' = pending \ {op}
        /\ UNCHANGED msgHeap
        /\ ThreadOpFrame

\* what the remote service answers to GET /chat/threads
FetchAnswers ==
    ThreadAnswers \cup { MkAnswer(NetFailure, DefaultRefresh, NetFailure) }

\* the threads the remote service holds
RemoteThreads == << MkThread("th1", <<>>), MkThread("th2", <<>>) >>

\* api.getThreads(): [] without a session; else the gateway call, whose
\* error is caught and answered by []
GetThreads(s, a) ==
    IF ~s.present
    THEN [called |-> FALSE, out |-> NoOut, ok |-> FALSE, threads |-> <<>>]
    ELSE LET out == ApiFetch("/chat/threads", s, a.r1, a.rf, a.r2) IN
         IF out.result.kind = "error"
         THEN [called |-> TRUE, out |-> out, ok |-> FALSE, threads |-> <<>>]
         ELSE [called |-> TRUE, out |-> out, ok |-> TRUE, threads |-> RemoteThreads]

\* fetchThreads() up to its await
FetchThreads ==
    /\ Started("fetch", None, NoThread)
    /\ UNCHANGED <<msgHeap, threads, currentThread, session>>
    /\ ThreadOpFrame

\* fetchThreads after its await: getThreads never throws
FetchSettles ==
    \E op \in pending, a \in FetchAnswers :
        /\ op.kind = "fetch"
        /\ LET got == GetThreads(session, a) IN
           /\ session' = IF got.called THEN SessionAfter(session, got.out)
                         ELSE session
           /\ threads' = got.threads
           /\ ghost' = Settled(ghost, op, got.ok)
        /\ loading' = FALSE
        /\ pending' = pending \ {op}
        /\ UNCHANGED <<msgHeap, currentThread, chatError>>
        /\ ThreadOpFrame

\* loadThreadMessages(threadId) up to its await, for the id of the k-th
\* thread of the list
LoadThreadMessages(k) ==
    /\ k \in 1..Len(threads)
    /\ Started("load", threads[k].id, NoThread)
    /\ UNCHANGED <<msgHeap, threads, currentThread, session>>
    /\ ThreadOpFrame

\* if (!state.currentThread || state.currentThread.id !== threadId) return state
NotTheLoadedThread(cur, id) == ~cur.present \/ cur.id # id

\* loadThreadMessages after its await
LoadSettles ==
    \E op \in pending, a \in ThreadAnswers, list \in RemoteMessageLists :
        /\ op.kind = "load"
        /\ LET got == GetThreadMessages(session, a, list)
               idx == [k \in 1..Len(list) |-> Len(msgHeap) + k]
               updatedThread == [currentThread EXCEPT !.messages = idx]
           IN  /\ session' = SessionAfter(session, got.out)
               /\ IF ~got.ok
                  THEN /\ chatError' = got.out.result.message
                       /\ loading' = FALSE
                       /\ ghost' = Settled(ghost, op, FALSE)
                       /\ UNCHANGED <<msgHeap, threads, currentThread>>
                  ELSE IF NotTheLoadedThread(currentThread, op.id)
                  THEN /\ ghost' = Settled(ghost, op, TRUE)
                       /\ UNCHANGED <<msgHeap, threads, currentThread, chatError,
                                      loading>>
                  ELSE /\ msgHeap' = msgHeap \o got.messages
                       /\ ghost' = [Settled(ghost, op, TRUE) EXCEPT
                                      !.owner = @ \o [k \in 1..Len(list) |-> 0]]
                       /\ currentThread' = updatedThread
                       /\ threads' = ReplaceThread(threads, updatedThread)
                       /\ loading' = FALSE
                       /\ UNCHANGED chatError
        /\ pending' = pending \ {op}
        /\ ThreadOpFrame

\* the user sends a message, selects, creates or deletes a thread
UserSends(n) == UserCanSend /\ SendMessage(n)

UserSelects(k) == UserCanAct /\ SelectThread(k)

UserCreates == UserCanAct /\ CreateThread

UserDeletes(k) == UserCanAct /\ DeleteThread(k)

\* appendStreamToken(content): the last message of the current thread, if
\* it is an assistant message, gets the content; the thread replaces its
\* entry in the collection
AppendStreamToken ==
    /\ currentThread.present
    /\ LET m == LastAssistant(msgHeap, currentThread) IN
       msgHeap' = IF m = 0 THEN msgHeap
                  ELSE [msgHeap EXCEPT ![m].content = <<"token">>]
    /\ threads' = ReplaceThread(threads, currentThread)
    /\ UNCHANGED <<currentThread, chatError, loading, pending, ghost, session>>
    /\ ThreadOpFrame

(***************************************************************************)
(* Specification of the upload pipeline                                    *)
(***************************************************************************)
UpInit ==
    /\ session = MkSession("t1", "u1")
    /\ GwIdle
    /\ UpIdle
    /\ ChIdle

UpNext ==
    \/ StartBatch(1)
    \/ \E b \in Batches : Iterate(b)
    \/ \E b \in Batches : UploadSettles(b)
    \/ \E b \in Batches : CountSettles(b)
    \/ \E b \in Batches : PacingDone(b)
    \/ \E b \in Batches : Finish(b)

SpecUpload == UpInit /\ [][UpNext]_vars

(***************************************************************************)
(* Specification of two upload batches: files are dropped or chosen again  *)
(* while the files of an earlier drop are still being processed            *)
(***************************************************************************)
\* the batches dropped or chosen in this specification
PairBatches ==
    { << MkFile(<<"notes", "TXT">>, 10 * MiB) >>,
      << MkFile(<<"notes", "TXT">>, 10 * MiB), MkFile(<<"empty", "md">>, 0) >> }

\* the second handleFiles invocation is the one that starts second
StartPair(b) ==
    \E fs \in PairBatches, via \in {"drop", "change"} :
        /\ b = 2 => batch[1].pc # "idle"
        /\ StartBatchWith(b, fs, via)

PairNext ==
    \/ \E b \in Batches : StartPair(b)
    \/ \E b \in Batches : Iterate(b)
    \/ \E b \in Batches : UploadSettles(b)
    \/ \E b \in Batches : CountSettles(b)
    \/ \E b \in Batches : PacingDone(b)
    \/ \E b \in Batches : Finish(b)

SpecTwoBatches == UpInit /\ [][PairNext]_vars

(***************************************************************************)
(* Specification of the gateway alone                                      *)
(***************************************************************************)
GwInit ==
    /\ session = NoSession
    /\ GwIdle
    /\ UpIdle
    /\ ChIdle

GwNext ==
    \/ SessionChange
    \/ CallFetch
    \/ CallStreamMessage
    \/ CallReturns

SpecGateway == GwInit /\ [][GwNext]_vars

(***************************************************************************)
(* Specification of one sendMessage call and its stream                    *)
(***************************************************************************)
\* a thread has been selected, or none
StreamInit ==
    /\ session \in {MkSession("t1", "u1"), NoSession}
    /\ GwIdle
    /\ UpIdle
    /\ msgHeap = << MkMessage("user", <<"earlier question">>, None),
                    MkMessage("assistant", <<"earlier answer">>, "s0") >>
    /\ threads = << MkThread("th1", <<1, 2>>), MkThread("th2", <<>>) >>
    /\ currentThread \in {NoThread, threads[1], threads[2]}
    /\ processingStatus = None
    /\ searchProgress = 0
    /\ isStreaming = FALSE
    /\ chatError = <<>>
    /\ send = IdleSend
    /\ sent = [frames |-> <<>>, cut |-> 0]
    /\ wire = <<>>
    /\ buffer = <<>>
    /\ loading = FALSE
    /\ sim = [n \in SendNos |-> IdleSim]
    /\ pending = {}
    /\ ghost = IdleGhost

StreamNext ==
    \/ SendStart
    \/ StreamOpens
    \/ ReadChunk
    \/ ReadEnd
    \/ ReadFails

SpecStream == StreamInit /\ [][StreamNext]_vars

(***************************************************************************)
(* Specification of the chat store: sends and thread operations together   *)
(***************************************************************************)
\* the bodies the remote service streams in this specification
ChatBodies == { <<"A", "B">> }

ChatStreamOpens ==
    \E a \in StreamAnswers, frames \in ChatBodies : StreamOpensWith(a, frames, 0)

\* the state after ChatInterface has initialised: the threads are fetched
\* and the first one is selected, its messages loaded
ChatInit ==
    /\ session = MkSession("t1", "u1")
    /\ GwIdle
    /\ UpIdle
    /\ msgHeap = << MkMessage("user", <<"earlier question">>, None),
                    MkMessage("assistant", <<"earlier answer">>, "s0") >>
    /\ threads = << MkThread("th1", <<1, 2>>), MkThread("th2", <<>>) >>
    /\ currentThread = threads[1]
    /\ processingStatus = None
    /\ searchProgress = 0
    /\ isStreaming = FALSE
    /\ chatError = <<>>
    /\ send = IdleSend
    /\ sent = [frames |-> <<>>, cut |-> 0]
    /\ wire = <<>>
    /\ buffer = <<>>
    /\ loading = FALSE
    /\ sim = [n \in SendNos |-> IdleSim]
    /\ pending = {}
    /\ ghost = IdleGhost

ChatNext ==
    \/ \E n \in SendNos : UserSends(n)
    \/ ChatStreamOpens
    \/ ReadChunk
    \/ ReadEnd
    \/ ReadFails
    \/ \E k \in 1..Len(threads) : UserSelects(k)
    \/ SelectSettles
    \/ UserCreates
    \/ CreateSettles
    \/ \E k \in 1..Len(threads) : UserDeletes(k)
    \/ DeleteSettles

SpecChat == ChatInit /\ [][ChatNext]_vars

(***************************************************************************)
(* Specification of one sendMessage call with its progress simulator       *)
(***************************************************************************)
\* the bodies the remote service streams in this specification
ProgressBodies == { <<"A">>, <<"S", "A">>, <<"S">> }

ProgressStreamOpens ==
    \E a \in StreamAnswers, frames \in ProgressBodies :
        StreamOpensWith(a, frames, 0)

ProgressNext ==
    \/ SendStart
    \/ ProgressStreamOpens
    \/ ReadChunk
    \/ ReadEnd
    \/ ReadFails
    \/ SimTick(1)

SpecProgress == ChatInit /\ [][ProgressNext]_vars

(***************************************************************************)
(* Specification of the mutations of messages: one sendMessage call,       *)
(* thread selection and deletion, appendStreamToken                        *)
(***************************************************************************)
\* as ChatInit, the second thread holding a question that got no answer
MutateInit ==
    /\ session = MkSession("t1", "u1")
    /\ GwIdle
    /\ UpIdle
    /\ msgHeap = << MkMessage("user", <<"earlier question">>, None),
                    MkMessage("assistant", <<"earlier answer">>, "s0"),
                    MkMessage("user", <<"unanswered question">>, None) >>
    /\ threads = << MkThread("th1", <<1, 2>>), MkThread("th2", <<3>>) >>
    /\ currentThread = threads[1]
    /\ processingStatus = None
    /\ searchProgress = 0
    /\ isStreaming = FALSE
    /\ chatError = <<>>
    /\ send = IdleSend
    /\ sent = [frames |-> <<>>, cut |-> 0]
    /\ wire = <<>>
    /\ buffer = <<>>
    /\ loading = FALSE
    /\ sim = [n \in SendNos |-> IdleSim]
    /\ pending = {}
    /\ ghost = [IdleGhost EXCEPT !.owner = <<0, 0, 0>>]

MutateNext ==
    \/ UserSends(1)
    \/ ChatStreamOpens
    \/ ReadChunk
    \/ ReadEnd
    \/ ReadFails
    \/ \E k \in 1..Len(threads) : UserSelects(k)
    \/ SelectSettles
    \/ \E k \in 1..Len(threads) : UserDeletes(k)
    \/ DeleteSettles
    \/ AppendStreamToken

SpecMutate == MutateInit /\ [][MutateNext]_vars

(***************************************************************************)
(* Specification of the store alone: the thread operations as any caller   *)
(* of the store may start them, one while others wait for their answers    *)
(***************************************************************************)
StoreInit ==
    /\ session \in {MkSession("t1", "u1"), NoSession}
    /\ GwIdle
    /\ UpIdle
    /\ msgHeap = << MkMessage("user", <<"earlier question">>, None),
                    MkMessage("assistant", <<"earlier answer">>, "s0") >>
    /\ threads = << MkThread("th1", <<1, 2>>), MkThread("th2", <<>>) >>
    /\ currentThread = threads[1]
    /\ processingStatus = None
    /\ searchProgress = 0
    /\ isStreaming = FALSE
    /\ chatError = <<>>
    /\ send = IdleSend
    /\ sent = [frames |-> <<>>, cut |-> 0]
    /\ wire = <<>>
    /\ buffer = <<>>
    /\ loading = FALSE
    /\ sim = [n \in SendNos |-> IdleSim]
    /\ pending = {}
    /\ ghost = IdleGhost

\* the callers start at most MaxOps operations in one run
MayStart == ghost.ops < MaxOps

StoreNext ==
    \/ MayStart /\ FetchThreads
    \/ FetchSettles
    \/ \E k \in 1..Len(threads) : MayStart /\ SelectThread(k)
    \/ SelectSettles
    \/ \E k \in 1..Len(threads) : MayStart /\ LoadThreadMessages(k)
    \/ LoadSettles
    \/ MayStart /\ CreateThread
    \/ CreateSettles
    \/ \E k \in 1..Len(threads) : MayStart /\ DeleteThread(k)
    \/ DeleteSettles

SpecStore == StoreInit /\ [][StoreNext]_vars

(***************************************************************************)
(* Claims about the gateway (checked under SpecGateway)                    *)
(***************************************************************************)
RequestsAt(log) == { k \in 1..Len(log) : log[k].ev = "request" }

RefreshesAt(log) == { k \in 1..Len(log) : log[k].ev = "refresh" }

\* C1: in one gateway call a refresh is attempted at most once and only
\* right after a 401 response; at most two requests are sent, the second
\* only after a refresh that succeeded and with the refreshed token; a
\* retried request that succeeds is what the caller receives, and nothing
\* (no refresh, no request) follows the retried request whatever it returns.
C1_RefreshOnceRetryOnce ==
    LET log == gwOut.log IN
    /\ Cardinality(RefreshesAt(log)) <= 1
    /\ \A k \in RefreshesAt(log) :
          k > 1 /\ log[k - 1].ev = "request" /\ log[k - 1].status = 401
    /\ Cardinality(RequestsAt(log)) <= 2
    /\ \A k \in RequestsAt(log) :
          k > 1 => /\ k = 3
                   /\ log[2].ev = "refresh"
                   /\ ~gwCall.rf.error
                   /\ gwCall.rf.session.present
                   /\ log[k].token = gwCall.rf.session.access_token
                   /\ log[k].status = gwCall.r2.status
                   /\ Len(log) = k
    /\ (Cardinality(RequestsAt(log)) = 2 /\ ResponseOk(gwCall.r2))
          => gwOut.result = Returned(gwCall.r2, 2)

\* a call whose first request got 401, whose refresh succeeded and whose
\* retried request got 401 again
C1_Witness ==
    /\ Len(gwOut.log) = 3
    /\ gwOut.log[1].status = 401
    /\ gwOut.log[3].status = 401
    /\ gwOut.result.kind = "error"

\* C2: when the request returns 401 and the refresh fails, the call raises
\* 'Session expired. Please log in again.' and no second request is sent.
C2_RefreshFailureExpires ==
    (/\ Len(gwOut.log) >= 1
     /\ gwOut.log[1].status = 401
     /\ gwCall.rf.error)
    => /\ gwOut.result = Thrown(<<"Session expired. Please log in again.">>)
       /\ Cardinality(RequestsAt(gwOut.log)) = 1

C2_Witness ==
    /\ Len(gwOut.log) = 2
    /\ gwOut.log[1].status = 401
    /\ gwOut.log[2].ev = "refresh"
    /\ gwCall.rf.error
    /\ gwOut.result.kind = "error"

\* C3: a gateway call made while the session has no access token fails with
\* 'No active session' and issues neither a request nor a refresh; so does
\* streamMessage when the session has no user id.
C3_NoTokenFailsFast ==
    (/\ gwCall.op # "none"
     /\ \/ ~gwCall.session.present
        \/ gwCall.session.access_token = None
        \/ gwCall.op = "streamMessage" /\ gwCall.session.user_id = None)
    => /\ gwOut.log = <<>>
       /\ gwOut.result = Thrown(<<"No active session">>)

\* a call made with a session object that carries no access token
C3_Witness ==
    /\ gwCall.op = "fetch"
    /\ gwCall.session = MkSession(None, "u1")
    /\ gwOut.result.kind = "error"

(***************************************************************************)
(* Claims about the upload pipeline (checked under SpecUpload)             *)
(***************************************************************************)
IsBegin(e) == e.ev = "begin"

IsEnd(e) == e.ev = "end"

ApiCallsFor(b, k) ==
    { q \in 1..Len(history[b]) : history[b][q].ev = "api" /\ history[b][q].i = k }

EndsOf(b) == SelectSeq(history[b], IsEnd)

BeginsOf(b) == SelectSeq(history[b], IsBegin)

\* C4: a file whose upload failed with a transient signal is retried up to
\* 3 additional times: it is reported failed only after 4 attempts.
C4_TransientFailureRetried ==
    \A b \in Batches : \A p \in 1..Len(history[b]) :
        LET e == history[b][p] IN
        (e.ev = "end" /\ e.res = "thrown" /\ TransientSignal(e.msg))
            => Cardinality(ApiCallsFor(b, e.i)) = MAX_RETRIES + 1

\* C5: every file of a batch is processed exactly once and in input order;
\* file i+1 starts only after the outcome of file i is determined; when the
\* batch is over every file has been processed, whatever failed before it.
C5_InOrderExactlyOnce ==
    \A b \in Batches :
        LET H == history[b]
            n == Len(batch[b].files)
        IN  /\ \A k \in 1..Len(BeginsOf(b)) : BeginsOf(b)[k].i = k - 1
            /\ \A k \in 1..Len(EndsOf(b)) : EndsOf(b)[k].i = k - 1
            /\ Len(BeginsOf(b)) <= n
            /\ \A p \in 1..Len(H) :
                  (H[p].ev = "begin" /\ H[p].i > 0)
                      => \E q \in 1..(p - 1) :
                            H[q].ev = "end" /\ H[q].i = H[p].i - 1
            /\ \A p \in 1..Len(H) :
                  H[p].ev = "end"
                      => \E q \in 1..(p - 1) :
                            H[q].ev = "begin" /\ H[q].i = H[p].i
            /\ batch[b].pc = "done"
                  => Len(BeginsOf(b)) = n /\ Len(EndsOf(b)) = n

\* a finished batch of three whose first file failed validation, whose
\* second exhausted its upload and whose third was uploaded
C5_Witness ==
    /\ batch[1].pc = "done"
    /\ Len(EndsOf(1)) = 3
    /\ EndsOf(1)[1].res = "invalid"
    /\ EndsOf(1)[2].res = "thrown"
    /\ EndsOf(1)[3].bucket = "uploaded"

\* C6: once handleFiles has finished and no batch is in flight, the
\* progress slot is idle with currentFileIndex 0, whatever the files did.
C6_FinalProgressIdle ==
    (/\ \E b \in Batches : batch[b].pc = "done"
     /\ \A b \in Batches : batch[b].pc \in {"idle", "done"})
    => /\ uploadProgress.status = "idle"
       /\ uploadProgress.currentFileIndex = 0

\* a finished batch with an upload, a duplicate and a failure
C6_Witness ==
    /\ batch[1].pc = "done"
    /\ batch[1].successCount > 0
    /\ batch[1].skipCount > 0
    /\ batch[1].errorCount > 0
    /\ uploadProgress.status = "idle"

\* the extension of a file name: what follows its last '.', if it has one
HasAllowedExtension(file) ==
    Len(file.name) >= 2 /\ ToLowerCase(Last(file.name)) \in allowedTypes

\* C7: a file larger than 10 MiB or whose extension is not one of the five
\* allowed is rejected locally: no request is made for it, and its outcome
\* is a failure with progress status error.
C7_InvalidFileRejectedLocally ==
    \A b \in Batches : \A k \in 0..(Len(BeginsOf(b)) - 1) :
        LET file == batch[b].files[k + 1] IN
        (file.size > 10 * MiB \/ ~HasAllowedExtension(file))
            => /\ ApiCallsFor(b, k) = {}
               /\ Len(EndsOf(b)) > k => EndsOf(b)[k + 1].bucket = "failed"
               /\ (Len(EndsOf(b)) = k + 1 /\ batch[b].pc = "loop")
                     => uploadProgress.status = "error"

\* the result is a duplicate: status skipped, embedding_status skipped_duplicate
IsDuplicate(res) ==
    res.status = "skipped" /\ res.embedding_status = "skipped_duplicate"

\* the result is one of those the pipeline names
IsRecognised(res) ==
    \/ IsDuplicate(res)
    \/ /\ res.status = "success"
       /\ res.embedding_status \in {"completed", "skipped_empty", "error",
                                    "error_date_format", "error_decode"}

CountOf(b, bucket) ==
    Cardinality({ k \in 1..Len(EndsOf(b)) : EndsOf(b)[k].bucket = bucket })

\* the bucket the original claim gives the file with end event e
ClaimedBucket(e) ==
    IF e.res \in {"thrown", "invalid"} THEN "failed"
    ELSE IF IsDuplicate(UploadResult(e.res)) THEN "skipped"
    ELSE IF ~IsRecognised(UploadResult(e.res)) THEN "failed"
    ELSE "uploaded"

\* the same, an unrecognised result counting as failed only for a file that
\* is not empty
AmendedBucket(file, e) ==
    IF e.res \in {"thrown", "invalid"} THEN "failed"
    ELSE IF IsDuplicate(UploadResult(e.res)) THEN "skipped"
    ELSE IF file.size # 0 /\ ~IsRecognised(UploadResult(e.res)) THEN "failed"
    ELSE "uploaded"

CountersAddUp(b) ==
    /\ batch[b].successCount + batch[b].skipCount + batch[b].errorCount
          = Len(batch[b].files)
    /\ batch[b].successCount = CountOf(b, "uploaded")
    /\ batch[b].skipCount = CountOf(b, "skipped")
    /\ batch[b].errorCount = CountOf(b, "failed")
    /\ Len(batch[b].files) > 1
          => batch[b].summary = <<batch[b].successCount, batch[b].skipCount,
                                  batch[b].errorCount>>

\* files 1 and 3 of a batch of three succeeded and file 2 was a duplicate
DuplicateInTheMiddle(b) ==
    /\ Len(EndsOf(b)) = 3
    /\ EndsOf(b)[1].res = "ok"
    /\ EndsOf(b)[2].res = "dup"
    /\ EndsOf(b)[3].res = "ok"

\* C8 as stated: at the end of a batch the counters add up to N, a
\* duplicate counts as skipped, a thrown or unrecognised result as failed,
\* every other result as uploaded.
C8_CountersAsClaimed ==
    \A b \in Batches :
        batch[b].pc = "done"
            => /\ CountersAddUp(b)
               /\ \A k \in 1..Len(EndsOf(b)) :
                     EndsOf(b)[k].bucket = ClaimedBucket(EndsOf(b)[k])

\* C8 amended: as above, but an unrecognised result counts as failed only
\* for a non-empty file (an empty file counts as uploaded unless it is a
\* duplicate); with file 2 of 3 a duplicate and files 1 and 3 succeeding
\* the summary is uploaded=2, skipped=1, failed=0.
C8_CountersPartitionBatch ==
    \A b \in Batches :
        batch[b].pc = "done"
            => /\ CountersAddUp(b)
               /\ \A k \in 1..Len(EndsOf(b)) :
                     EndsOf(b)[k].bucket
                         = AmendedBucket(batch[b].files[k], EndsOf(b)[k])
               /\ DuplicateInTheMiddle(b) => batch[b].summary = <<2, 1, 0>>

C8_Witness ==
    /\ batch[1].pc = "done"
    /\ DuplicateInTheMiddle(1)
    /\ batch[1].summary = <<2, 1, 0>>

\* the files whose outcome is determined and whose successor has begun
NextStarted(b) ==
    { p \in 1..Len(history[b]) : history[b][p].ev = "begin" /\ history[b][p].i > 0 }

\* GET /files/count was requested for file k before position p
CountedBefore(b, k, p) ==
    \E q \in 1..(p - 1) : history[b][q].ev = "count" /\ history[b][q].i = k

\* the outcome of file k: error when its iteration ended in the catch block
OutcomeOf(e) == IF e.res \in {"thrown", "invalid"} THEN "error" ELSE "complete"

\* between the outcome of a file and the start of the next one the progress
\* status is that outcome
StatusIsOutcome(b) ==
    (/\ history[b] # <<>>
     /\ Last(history[b]).ev \in {"end", "count"}
     /\ batch[b].pc # "done")
    => uploadProgress.status = OutcomeOf(Last(EndsOf(b)))

\* C22 as stated: once the outcome of a file is determined, complete or
\* error, the progress status is that outcome and the file counter is
\* refreshed from the remote service before the next file starts.
C22_CounterRefreshedAfterEveryFile ==
    \A b \in Batches :
        /\ StatusIsOutcome(b)
        /\ \A p \in NextStarted(b) : CountedBefore(b, history[b][p].i - 1, p)

\* C22 amended: once the outcome of a file is determined the progress
\* status is that outcome; when the outcome is complete the file counter is
\* refreshed from the remote service before the next file starts, and when
\* it is error the next file starts with no refresh.
C22_CounterRefreshedAfterComplete ==
    \A b \in Batches :
        /\ StatusIsOutcome(b)
        /\ \A p \in NextStarted(b) :
              LET k == history[b][p].i - 1 IN
              CountedBefore(b, k, p) <=> OutcomeOf(EndsOf(b)[k + 1]) = "complete"

\* the first file failed and the second was uploaded; the third has begun
C22_Witness ==
    /\ Len(BeginsOf(1)) = 3
    /\ EndsOf(1)[1].res = "thrown"
    /\ EndsOf(1)[2].res = "ok"
    /\ CountedBefore(1, 1, Len(history[1]))
    /\ ~CountedBefore(1, 0, Len(history[1]))

(***************************************************************************)
(* Claims about the streaming chat pipeline (checked under SpecStream)     *)
(***************************************************************************)
\* the content fragments of the frames the remote service sent, in order,
\* up to the [DONE] frame; a frame that is not JSON carries none
RECURSIVE FragmentsBeforeDone(_)
FragmentsBeforeDone(frames) ==
    IF frames = <<>> THEN <<>>
    ELSE IF Head(frames) = DoneMark THEN <<>>
    ELSE (IF Head(frames) \in JsonPayloads /\ FrameOf(Head(frames)).content # None
          THEN <<FrameOf(Head(frames)).content>> ELSE <<>>)
         \o FragmentsBeforeDone(Tail(frames))

IsPrefix(p, q) == Len(p) <= Len(q) /\ p = SubSeq(q, 1, Len(p))

\* the stream of this sendMessage call has ended without error
EndedWithoutError == send.pc = "done" /\ ~send.failed /\ send.placeholder # 0

\* C9: when the stream has ended without error, the content of the
\* assistant message is the concatenation, in order, of the content
\* fragments of all the frames sent, also when the body ends without a
\* trailing newline; only a frame that is not JSON contributes nothing.
C9_ContentIsAllFragments ==
    EndedWithoutError
        => msgHeap[send.placeholder].content = FragmentsBeforeDone(sent.frames)

\* C10: the assistant message never holds a fragment of a frame behind
\* [DONE]; a [DONE] frame ends the stream without error, the message then
\* holding the fragments of all frames before it ("AB" for A, B, [DONE]).
C10_DoneEndsStream ==
    send.placeholder # 0
        => /\ IsPrefix(msgHeap[send.placeholder].content,
                       FragmentsBeforeDone(sent.frames))
           /\ (EndedWithoutError /\ \E k \in 1..Len(sent.frames) :
                                        sent.frames[k] = DoneMark)
                 => msgHeap[send.placeholder].content
                        = FragmentsBeforeDone(sent.frames)
           /\ (EndedWithoutError /\ Len(sent.frames) >= 3
                 /\ sent.frames[1] = "A" /\ sent.frames[2] = "B"
                 /\ sent.frames[3] = DoneMark)
                 => msgHeap[send.placeholder].content = <<"A", "B">>

\* a stream A, [DONE], B that has ended with content "A"
C10_Witness ==
    /\ EndedWithoutError
    /\ sent.frames = <<"A", DoneMark, "B">>
    /\ sent.cut = 0
    /\ msgHeap[send.placeholder].content = <<"A">>

\* the frames whose terminating newline the transport delivered
DeliveredFrames == IF sent.cut = 0 THEN sent.frames ELSE Front(sent.frames)

\* the frames that parse as JSON among the given ones, up to [DONE]
RECURSIVE WellFormedBeforeDone(_)
WellFormedBeforeDone(frames) ==
    IF frames = <<>> THEN <<>>
    ELSE IF Head(frames) = DoneMark THEN <<>>
    ELSE (IF Head(frames) \in JsonPayloads THEN <<FrameOf(Head(frames))>> ELSE <<>>)
         \o WellFormedBeforeDone(Tail(frames))

\* the body was read to its end or to [DONE]: the transport did not fail
ReadToTheEnd == send.pc = "done" /\ sent.frames # <<>> /\ send.thrown = <<>>

\* C11: a frame that is not valid JSON is skipped and does not end the
\* stream: sendMessage never fails because of it (only when the transport
\* fails), every well-formed frame delivered before [DONE], also behind the
\* malformed one, is yielded to the loop in order, and its content is in
\* the assistant message.
C11_MalformedFrameSkipped ==
    Includes(sent.frames, "bad")
        => /\ send.failed => send.thrown = <<"network error">>
           /\ IsPrefix(ghost.yielded, WellFormedBeforeDone(DeliveredFrames))
           /\ ReadToTheEnd
                 => /\ ghost.yielded = WellFormedBeforeDone(DeliveredFrames)
                    /\ send.placeholder # 0
                          => msgHeap[send.placeholder].content
                                = FragmentsBeforeDone(DeliveredFrames)

\* a stream A, malformed, B that has ended with content "AB"
C11_Witness ==
    /\ EndedWithoutError
    /\ sent.frames = <<"A", "bad", "B">>
    /\ sent.cut = 0
    /\ ghost.yielded = <<FrameOf("A"), FrameOf("B")>>
    /\ msgHeap[send.placeholder].content = <<"A", "B">>

\* what streamMessage yields when the given text arrives in a single read
InOneRead(text) == DecodeLines(Front(split(text))).frames

\* C23: the frames streamMessage yields do not depend on how the body is
\* split into reads: after any reads, wherever they cut the body, the
\* frames yielded so far followed by those the rest would yield in a single
\* read are the frames the whole body yields in a single read, and when
\* the body has been read to its end the frames yielded are exactly those.
C23_FramesIndependentOfChunks ==
    /\ send.pc = "reading"
          => ghost.yielded \o InOneRead(buffer \o wire)
                = InOneRead(CutBody(sent.frames, sent.cut))
    /\ (send.pc = "done" /\ send.thrown = <<>>)
          => ghost.yielded = InOneRead(CutBody(sent.frames, sent.cut))

\* a read has ended between "data: " and the payload of the second frame,
\* the first frame being yielded
C23_Witness ==
    /\ send.pc = "reading"
    /\ sent.frames = <<"A", "B">>
    /\ buffer = <<DataPrefix>>
    /\ wire = <<"B", NL, NL>>
    /\ ghost.yielded = <<FrameOf("A")>>

\* the messages of the thread with the given id in the collection
MessagesOf(id) ==
    LET ks == { k \in 1..Len(threads) : threads[k].id = id } IN
    IF ks = {} THEN <<>> ELSE threads[CHOOSE k \in ks : TRUE].messages

InSeq(x, q) == \E k \in 1..Len(q) : q[k] = x

LabelRuns ==
    { <<>>, <<Searching>>, <<Searching, None>>,
      <<Searching, Analyzing, Generating>>,
      <<Searching, Analyzing, Generating, None>> }

\* C18: the values written to processingStatus by one call are Searching,
\* then at most once Analyzing followed by Generating, then '' at the end:
\* the label never goes back, whatever number of content frames follows;
\* Analyzing and Generating are written only when a content frame has been
\* yielded; the label shown is the last one written.
C18_PhaseLabelForwardOnly ==
    /\ ghost.labels \in LabelRuns
    /\ Includes(ghost.labels, Analyzing) => HasContent(ghost.yielded)
    /\ Includes(ghost.labels, Generating) => HasContent(ghost.yielded)
    /\ processingStatus = IF ghost.labels = <<>> THEN None ELSE Last(ghost.labels)

\* a call that has completed after two content frames
C18_Witness ==
    /\ EndedWithoutError
    /\ ghost.yielded = <<FrameOf("A"), FrameOf("B")>>
    /\ ghost.labels = <<Searching, Analyzing, Generating, None>>

\* the sources of the last of the given frames that carries sources, up to
\* [DONE]; acc when there is none
RECURSIVE LastSources(_, _)
LastSources(frames, acc) ==
    IF frames = <<>> THEN acc
    ELSE IF Head(frames) = DoneMark THEN acc
    ELSE IF Head(frames) \in JsonPayloads /\ FrameOf(Head(frames)).sources # None
    THEN LastSources(Tail(frames), FrameOf(Head(frames)).sources)
    ELSE LastSources(Tail(frames), acc)

\* C19: when the stream has been read to its end, the sources of the
\* assistant message are those of the last delivered frame that carried
\* sources, whether that frame carried content or not.
C19_SourcesLastWriteWins ==
    (ReadToTheEnd /\ send.placeholder # 0)
        => msgHeap[send.placeholder].sources = LastSources(DeliveredFrames, None)

(***************************************************************************)
(* Claims about the progress simulator (checked under SpecProgress)        *)
(***************************************************************************)
\* the call runs and no content frame has arrived yet
StillSearching == send.pc \in {"opening", "reading"} /\ send.isSearching

\* C14 as claimed: before the first content frame arrives the progress
\* reported is never 90 or more.
C14_BelowNinetyBeforeContent == StillSearching => searchProgress < 90

\* C14: before the first content frame arrives the progress reported is
\* never more than 90.
C14_AtMostNinetyBeforeContent == StillSearching => searchProgress <= 90

\* the search has lasted long enough for the simulator to report its cap
C14_Witness ==
    /\ StillSearching
    /\ send.pc = "reading"
    /\ sim[1].tier = 3
    /\ searchProgress = 90

\* C15: every value the simulator writes to searchProgress lies in 0..90,
\* and a value it writes is never below the one it wrote before (a step
\* that changes the locals of a waiting simulator, its flag apart, is one
\* of its timers firing).
C15_SimulatorWithinZeroNinety ==
    [][\A n \in SendNos :
          (/\ sim[n].pc = "waiting"
           /\ sim[n]' # sim[n]
           /\ sim[n].isSearching' = sim[n].isSearching)
              => /\ searchProgress' = sim[n].progress'
                 /\ sim[n].progress' \in 0..90
                 /\ sim[n].progress' >= sim[n].progress]_vars

\* the simulator has gone through its three loops up to 90
C15_Witness ==
    /\ sim[1].pc = "waiting"
    /\ sim[1].tier = 3
    /\ sim[1].progress = 90
    /\ send.isSearching

\* C16: once the first content frame has arrived the simulator writes
\* searchProgress no more, not even from a timer that was pending then.
C16_NoWriteAfterCancel == ~ghost.lateTick

\* C17: when the call has completed, processingStatus is '' and
\* searchProgress is 0, and nothing it started changes them afterwards.
C17_IdleAfterCompletion ==
    send.pc = "done" => processingStatus = None /\ searchProgress = 0

\* C26: every simulator eventually stops.  The flag isSearching is local to
\* the call and is cleared only by the loop of that call, and a simulator
\* leaves its loops only when a timer fires with the flag cleared: so once
\* the call has returned, also after a failure or a stream without content,
\* its simulator has stopped or its flag is cleared, and the pending timer
\* is its last write.
C26_SimulatorStopsAfterReturn ==
    CallEnded(1) => (sim[1].pc = "stopped" \/ ~sim[1].isSearching)

(***************************************************************************)
(* Claims about sends and thread operations together (SpecChat)            *)
(***************************************************************************)
\* C13: no content append targets an assistant message whose owning stream
\* has terminated: every append made by a call goes to a message that call
\* appended itself, whatever thread operations and earlier calls there were.
C13_NoAppendAfterTermination ==
    \A a \in ghost.appends :
        ghost.owner[a.msg] \in SendNos => ghost.owner[a.msg] = a.by

\* the threads of ts whose id is not id, in the order of ts
RECURSIVE Others(_, _)
Others(ts, id) ==
    IF ts = <<>> THEN <<>>
    ELSE (IF Head(ts).id = id THEN <<>> ELSE <<Head(ts)>>) \o Others(Tail(ts), id)

\* C20: in the step in which a deleteThread(id) settles: when the remote
\* delete succeeded, the collection loses the thread with that id and keeps
\* every other thread as it was, and the active-thread pointer is cleared
\* if that thread was active and is unchanged otherwise; when it failed,
\* the collection and the pointer are unchanged and an error is recorded.
C20_DeleteThreadEffect ==
    [][\A op \in pending :
          (op.kind = "delete" /\ op \notin pending')
              => IF ghost.settled'.ok
                 THEN /\ threads' = Others(threads, op.id)
                      /\ currentThread' =
                            IF currentThread.present /\ currentThread.id = op.id
                            THEN NoThread ELSE currentThread
                      /\ (currentThread' = NoThread)
                            <=> (~currentThread.present \/ currentThread.id = op.id)
                 ELSE /\ threads' = threads
                      /\ currentThread' = currentThread
                      /\ chatError' # <<>>]_vars

\* the active thread th1 has been deleted: th2 is left and none is active
C20_Witness ==
    /\ ghost.settled.kind = "delete" /\ ghost.settled.id = "th1" /\ ghost.settled.ok
    /\ Len(threads) = 1
    /\ threads[1] = MkThread("th2", <<>>)
    /\ currentThread = NoThread

(***************************************************************************)
(* Claims about the mutations of messages (checked under SpecMutate)       *)
(***************************************************************************)
\* C21: a step changes a message only when the message is the last one of
\* the active thread and an assistant message, and then only its content
\* and sources; a user message never changes, and when the last message of
\* the active thread is a user message, or the thread has no message, or
\* no thread is active, no message changes at all.
C21_OnlyLastAssistantMutated ==
    [][\A m \in 1..Len(msgHeap) :
          msgHeap'[m] # msgHeap[m]
              => /\ msgHeap[m].role = "assistant"
                 /\ msgHeap'[m].role = "assistant"
                 /\ currentThread.present
                 /\ currentThread.messages # <<>>
                 /\ Last(currentThread.messages) = m]_vars

\* a content frame has been yielded while the active thread ended with a
\* user message: nothing was appended anywhere
C21_Witness ==
    /\ HasContent(ghost.yielded)
    /\ currentThread.present
    /\ currentThread.messages = <<3>>
    /\ msgHeap[3] = MkMessage("user", <<"unanswered question">>, None)
    /\ ghost.appends = {}
    /\ send.placeholder # 0
    /\ msgHeap[send.placeholder].content = <<>>

(***************************************************************************)
(* Claims about a stream and the active thread (checked under SpecChat)    *)
(***************************************************************************)
\* C24: the content fragments of a stream are appended only to the
\* placeholder the same sendMessage call created; when the active thread
\* changes while the stream is open, no fragment goes to a message of
\* another thread.
C24_AppendsOnlyToOwnPlaceholder ==
    \A a \in ghost.appends : ghost.owner[a.msg] = a.by

\* message m is in the active thread or in a thread of the collection
Held(m, ts, cur) ==
    \/ InSeq(m, cur.messages)
    \/ \E k \in 1..Len(ts) : InSeq(m, ts[k].messages)

\* C25: in the step in which a sendMessage call takes its error path, the
\* only message that leaves the threads is the placeholder that call
\* appended: no user message and no assistant message of an earlier
\* exchange is removed, whatever threads were selected or created since.
C25_ErrorRemovesOnlyOwnPlaceholder ==
    [][(send.pc # "done" /\ send'.pc = "done" /\ send'.failed)
          => \A m \in 1..Len(msgHeap) :
                (Held(m, threads, currentThread)
                    /\ ~Held(m, threads', currentThread'))
                    => m = send.placeholder]_vars

(***************************************************************************)
(* Claims about the thread operations of the store (SpecStore)             *)
(***************************************************************************)
SelectsPending == { op \in pending : op.kind = "select" }

\* C27: thread selection is last-selection-wins.  In the step in which the
\* load of a setCurrentThread settles while the load of a setCurrentThread
\* called after it has settled just before, and no other selection waits,
\* the active thread is the one selected last.
C27_LastSelectionWins ==
    [][\A op \in SelectsPending :
          (/\ op \notin pending'
           /\ SelectsPending = {op}
           /\ ghost.settled.kind = "select"
           /\ ghost.settled.seq > op.seq)
              => currentThread'.id = ghost.settled.id]_vars

\* C28: whenever no operation of the store waits for its answer, the
\* loading flag is false.
C28_LoadingFalseWhenIdle ==
    pending = {} => ~loading

\* C29: in the step in which fetchThreads settles, the thread list not
\* having been obtained (no session, HTTP error, network error), the
\* threads collection is unchanged and the error field holds the failure.
C29_FetchFailureRecorded ==
    [][\A op \in pending :
          (op.kind = "fetch" /\ op \notin pending' /\ ~ghost.settled'.ok)
              => /\ threads' = threads
                 /\ chatError' # <<>>]_vars

(***************************************************************************)
(* Claims about two upload batches (checked under SpecTwoBatches)          *)
(***************************************************************************)
\* batch b has files it has not finished processing
HasUnprocessed(b) ==
    batch[b].pc \notin {"idle", "done"} /\ batch[b].i < Len(batch[b].files)

\* C30: the progress slot is not reset to idle with totalFiles 0 while a
\* batch still has unprocessed files, however two batches interleave.
C30_SlotNotResetWhileBatchRuns ==
    (\E b \in Batches : HasUnprocessed(b))
        => ~(uploadProgress.status = "idle" /\ uploadProgress.totalFiles = 0)

====
